---- MODULE Spec2Model ----
(***************************************************************************)
(* Model of fish-audio-sdk's Session (src/src/session.ts): the pooled      *)
(* HTTP client with its keep-alive agents, the response interceptor that   *)
(* turns failed responses into errors, the request each operation builds,  *)
(* and the tts generator that yields the response body chunk by chunk.     *)
(*                                                                         *)
(* The libraries session.ts drives are modelled by what they do:           *)
(*   - http(s).Agent: a keep-alive pool; destroy() destroys every socket   *)
(*     of the agent, busy or free; socket.destroy() on a destroyed socket  *)
(*     does nothing; a destroyed socket leaves the pool at its 'close'     *)
(*     event; a destroyed agent still serves later requests with new       *)
(*     sockets;                                                            *)
(*   - axios: per-request headers are merged over the instance's headers,  *)
(*     names compared without case; a non-2xx status rejects with an       *)
(*     AxiosError that has a response; a transport failure rejects with    *)
(*     an error that has none; responseType 'stream' hands the body over   *)
(*     as a stream object, undecoded;                                      *)
(*   - Readable async iteration: chunks in arrival order, then the end,    *)
(*     or the stream's error at the next read.                             *)
(***************************************************************************)
EXTENDS Integers, Sequences, FiniteSets, TLC

\* ------------------------------------------------------------- bounds
\* Calls made, connections opened, bytes the peer writes.
MaxCalls == 1
MaxSockets == 1
MaxBody == 2

\* ---------------------------------------------------------- constants
None == "none"
Sessions == {"A", "B"}
CallIds == 1..MaxCalls
SocketIds == 1..MaxSockets

\* The operations of Session; tts is the one whose response is a stream.
Ops == {"tts", "asr", "listModels", "getModel", "createModel",
        "updateModel", "deleteModel", "getApiCredit", "getPackage"}

\* baseUrl's default is https://api.fish.audio, so requests go through the
\* https agent; the http agent exists and is destroyed by close() as well.
Schemes == {"http", "https"}
BaseScheme == "https"
Agents == Sessions \X Schemes
AgentOf(s) == <<s, BaseScheme>>

VARIABLES
  socks,        \* socket id -> [agent, st, destroyed, destroys]
  calls,        \* call id -> the call's record (see IdleCall)
  closeResult,  \* session -> "none" | "ok" | "raised": how its close() calls ended
  probe         \* one request built, or one response classified (ReqSpec, ErrSpec)

vars == <<socks, calls, closeResult, probe>>

\* ------------------------------------------------------------- errors
NoError == [class |-> "none", status |-> 0, detail |-> ""]
\* What axios rejects with when the socket dies before or during a response.
TransportError == [class |-> "AxiosError", status |-> 0, detail |-> "socket hang up"]
\* What reading the response stream raises once the stream was destroyed early.
StreamError == [class |-> "Error", status |-> 0, detail |-> "aborted"]

\* ------------------------------------------------- responses and errors
\* A JavaScript value that is undefined (a property an object does not have).
Undef == "<undefined>"
\* JavaScript truthiness of a string-or-undefined value, as || tests it.
Truthy(v) == v # Undef /\ v # ""
\* a || b || c
Or3(a, b, c) == IF Truthy(a) THEN a ELSE IF Truthy(b) THEN b ELSE c

Statuses == {200, 400, 401, 402, 404, 500}
Is2xx(status) == status >= 200 /\ status < 300
StatusText(status) ==
  CASE status = 200 -> "OK"
    [] status = 400 -> "Bad Request"
    [] status = 401 -> "Unauthorized"
    [] status = 402 -> "Payment Required"
    [] status = 404 -> "Not Found"
    [] OTHER -> "Internal Server Error"

\* What the peer writes as the body of a response: nothing, plain text, or a
\* JSON object that may have a detail and a message field.
FieldValues == {Undef, "", "quota exceeded", "no such model"}
Bodies ==
  {[kind |-> "empty", text |-> "", detail |-> Undef, message |-> Undef]}
  \cup {[kind |-> "text", text |-> t, detail |-> Undef, message |-> Undef] :
          t \in {"upstream down"}}
  \cup {[kind |-> "json", text |-> "", detail |-> d, message |-> m] :
          d \in FieldValues, m \in FieldValues}
PeerResponses ==
  {[status |-> st, statusText |-> StatusText(st), body |-> b] :
     st \in Statuses, b \in Bodies}

\* tts asks axios for the body as a stream; every other operation takes
\* axios's default decoding.
ResponseTypeOf(op) == IF op = "tts" THEN "stream" ELSE "json"

\* error.response.data as axios hands it to the interceptor: with
\* responseType 'stream' the undecoded stream object (an object with neither
\* a detail nor a message property), otherwise the text of the body, or the
\* object parsed from a JSON body; an empty body is the empty string.
AxiosData(responseType, body) ==
  IF responseType = "stream"
  THEN [type |-> "object", str |-> "", detail |-> Undef, message |-> Undef]
  ELSE IF body.kind = "json"
  THEN [type |-> "object", str |-> "", detail |-> body.detail, message |-> body.message]
  ELSE [type |-> "string", str |-> body.text, detail |-> Undef, message |-> Undef]

\* The error axios rejects with for a response whose status is not 2xx.
AxiosStatusError(responseType, resp) ==
  [hasResponse |-> TRUE, status |-> resp.status, statusText |-> resp.statusText,
   data |-> AxiosData(responseType, resp.body), raw |-> NoError]
\* The error axios rejects with when there is no response at all.
AxiosNetworkError(raw) ==
  [hasResponse |-> FALSE, status |-> 0, statusText |-> "",
   data |-> AxiosData("json", [kind |-> "empty", text |-> "", detail |-> Undef,
                                message |-> Undef]),
   raw |-> raw]

\* The interceptor's errorDetail: the status line, unless the data is a
\* string, or an object with a truthy detail or message.
errorDetail(error) ==
  IF error.data.type = "string" THEN error.data.str
  ELSE IF error.data.type = "object"
  THEN Or3(error.data.detail, error.data.message, error.statusText)
  ELSE error.statusText

\* The interceptor's rejection handler: what it throws.
ResponseInterceptor(error) ==
  IF error.hasResponse
  THEN [class |-> "HttpCodeError", status |-> error.status, detail |-> errorDetail(error)]
  ELSE error.raw

\* How a request/response call ends for a peer response: the thrown error,
\* or NoError when the response is returned.
CallOutcome(responseType, resp) ==
  IF Is2xx(resp.status) THEN NoError
  ELSE ResponseInterceptor(AxiosStatusError(responseType, resp))

\* ------------------------------------------------------ sockets, agents
NoSocket == 0
UnusedSocket == [agent |-> <<None, None>>, st |-> "unused", destroyed |-> FALSE, destroys |-> 0]
InPool(sk) == sk.st \in {"busy", "free"}

\* socket.destroy(): tears the socket down once; on a destroyed socket it
\* does nothing.
SocketDestroy(sk) ==
  IF sk.destroyed THEN sk ELSE [sk EXCEPT !.destroyed = TRUE, !.destroys = @ + 1]

\* agent.destroy(): destroys every socket the agent holds, in use or free.
AgentDestroy(ss, agent) ==
  [id \in SocketIds |->
     IF ss[id].agent = agent /\ InPool(ss[id]) THEN SocketDestroy(ss[id]) ELSE ss[id]]

\* The socket the agent of session s gives a new request: a free socket of
\* that agent that is still alive, else a new one.
FreeSockets(s) ==
  {id \in SocketIds : socks[id].agent = AgentOf(s) /\ socks[id].st = "free"
                        /\ ~socks[id].destroyed}
NewSockets == {id \in SocketIds : socks[id].st = "unused"}
Lowest(S) == CHOOSE x \in S : \A y \in S : x <= y
CanAcquire(s) == FreeSockets(s) # {} \/ NewSockets # {}
Acquire(s) == IF FreeSockets(s) # {} THEN Lowest(FreeSockets(s)) ELSE Lowest(NewSockets)

\* A socket goes back to its agent's free list when its response is over
\* (keepAlive: true); a destroyed one is not reused.
Release(ss, id) ==
  IF id = NoSocket THEN ss
  ELSE [ss EXCEPT ![id].st = IF @ = "busy" THEN "free" ELSE @]

\* ---------------------------------------------------------------- calls
\* responseType is what the operation asked axios for; the rest of a call
\* depends on the operation only through it.
IdleCall ==
  [sess |-> None, responseType |-> None, pc |-> "idle", sock |-> NoSocket,
   closedDuring |-> FALSE, err |-> NoError,
   body |-> <<>>, buf |-> <<>>, yielded |-> <<>>,
   peerEnded |-> FALSE, fault |-> FALSE]

\* A call waits on the peer while it awaits the response or the next chunk.
Blocked == {"awaitResponse", "awaitChunk"}
Streaming == {"awaitChunk", "yielded"}
Terminal == {"resolved", "rejected", "done"}

\* The call still has its connection to the peer.
Connected(c) == c.sock # NoSocket /\ ~socks[c.sock].destroyed

RECURSIVE Flatten(_)
Flatten(chunks) == IF chunks = <<>> THEN <<>> ELSE Head(chunks) \o Flatten(Tail(chunks))

\* Buffer.from(chunk): a copy of the chunk's bytes.
BufferFrom(chunk) == [i \in 1..Len(chunk) |-> chunk[i]]

\* The bytes the peer has written so far, over all calls.
RECURSIVE SumBody(_)
SumBody(c) == IF c = 0 THEN 0 ELSE Len(calls[c].body) + SumBody(c - 1)
BytesWritten == SumBody(MaxCalls)

\* The peer's body is the bytes 1, 2, 3, ...: each byte is told from every
\* other, so a lost, repeated or misplaced byte shows.
NextBytes(sent, n) == [i \in 1..n |-> Len(sent) + i]

\* The responses the peer gives in the lifecycle specification.
LifecycleBody == [kind |-> "json", text |-> "", detail |-> "no such model", message |-> Undef]
LifecycleResponses ==
  {[status |-> st, statusText |-> StatusText(st), body |-> LifecycleBody] : st \in {200, 404}}

Init ==
  /\ socks = [id \in SocketIds |-> UnusedSocket]
  /\ calls = [c \in CallIds |-> IdleCall]
  /\ closeResult = [s \in Sessions |-> "none"]
  /\ probe = None

\* An operation of session s is called (for tts: the consumer's first pull):
\* the request is issued through the session's client on a pooled socket.
\* Nothing in the operation, the client or the agent looks at whether close()
\* was called.
Start(c, s, op) ==
  /\ calls[c].pc = "idle"
  /\ \A d \in CallIds : d < c => calls[d].pc # "idle"
  /\ CanAcquire(s)
  /\ LET id == Acquire(s) IN
       /\ socks' = [socks EXCEPT ![id] = [@ EXCEPT !.agent = AgentOf(s), !.st = "busy"]]
       /\ calls' = [calls EXCEPT ![c] =
                      [IdleCall EXCEPT !.sess = s, !.responseType = ResponseTypeOf(op),
                                       !.pc = "awaitResponse", !.sock = id]]
  /\ UNCHANGED <<closeResult, probe>>

\* The peer's response arrives. A 2xx response resolves a request/response
\* call and starts the body of tts; any other status goes through the
\* interceptor and the call rejects. The socket of a finished
\* request/response call goes back to the pool; the body of a failed tts is
\* never read, so its socket stays in use.
PeerRespond(c, resp) ==
  /\ calls[c].pc = "awaitResponse"
  /\ Connected(calls[c])
  /\ LET cl == calls[c]
         out == CallOutcome(cl.responseType, resp) IN
       IF out = NoError /\ cl.responseType = "stream"
       THEN /\ calls' = [calls EXCEPT ![c] = [cl EXCEPT !.pc = "awaitChunk"]]
            /\ UNCHANGED socks
       ELSE /\ calls' = [calls EXCEPT ![c] =
                           [cl EXCEPT !.pc = IF out = NoError THEN "resolved" ELSE "rejected",
                                      !.err = out, !.sock = NoSocket]]
            /\ socks' = IF cl.responseType = "stream" THEN socks
                        ELSE Release(socks, cl.sock)
  /\ UNCHANGED <<closeResult, probe>>

\* The next n bytes of the tts response body, written by the peer, arrive as
\* one chunk of the response stream.
PeerWrite(c, n) ==
  /\ calls[c].pc \in Streaming
  /\ ~calls[c].peerEnded /\ ~calls[c].fault
  /\ Connected(calls[c])
  /\ BytesWritten + n <= MaxBody
  /\ LET chunk == NextBytes(calls[c].body, n) IN
       calls' = [calls EXCEPT ![c].body = @ \o chunk, ![c].buf = Append(@, chunk)]
  /\ UNCHANGED <<socks, closeResult, probe>>

\* The peer closes the response: the body is complete.
PeerEnd(c) ==
  /\ calls[c].pc \in Streaming
  /\ ~calls[c].peerEnded /\ ~calls[c].fault
  /\ Connected(calls[c])
  /\ calls' = [calls EXCEPT ![c].peerEnded = TRUE]
  /\ UNCHANGED <<socks, closeResult, probe>>

\* The peer drops the connection of a call in flight.
PeerReset(c) ==
  /\ calls[c].pc \in Blocked \cup Streaming
  /\ ~calls[c].peerEnded
  /\ Connected(calls[c])
  /\ socks' = [socks EXCEPT ![calls[c].sock] = SocketDestroy(@)]
  /\ UNCHANGED <<calls, closeResult, probe>>

\* TtsYield with the chunk left in the stream: it is yielded again.
TtsYieldAgain(c) ==
  /\ calls[c].pc = "awaitChunk"
  /\ ~calls[c].fault
  /\ calls[c].buf # <<>>
  /\ calls' = [calls EXCEPT ![c].yielded = Append(@, BufferFrom(Head(calls[c].buf))),
                            ![c].pc = "yielded"]
  /\ UNCHANGED <<socks, closeResult, probe>>

\* tts: for await (const chunk of response.data) yield Buffer.from(chunk),
\* one round: the next chunk of the stream is yielded to the consumer.
TtsYield(c) ==
  /\ calls[c].pc = "awaitChunk"
  /\ ~calls[c].fault
  /\ calls[c].buf # <<>>
  /\ calls' = [calls EXCEPT ![c].yielded = Append(@, BufferFrom(Head(calls[c].buf))),
                            ![c].buf = Tail(@),
                            ![c].pc = "yielded"]
  /\ UNCHANGED <<socks, closeResult, probe>>

\* The consumer pulls again.
TtsPull(c) ==
  /\ calls[c].pc = "yielded"
  /\ calls' = [calls EXCEPT ![c].pc = "awaitChunk"]
  /\ UNCHANGED <<socks, closeResult, probe>>

\* tts: the stream ended; the loop is left and the generator returns.
TtsEnd(c) ==
  /\ calls[c].pc = "awaitChunk"
  /\ ~calls[c].fault
  /\ calls[c].buf = <<>>
  /\ calls[c].peerEnded
  /\ calls' = [calls EXCEPT ![c].pc = "done", ![c].sock = NoSocket]
  /\ socks' = Release(socks, calls[c].sock)
  /\ UNCHANGED <<closeResult, probe>>

\* TtsRaise with the error logged and not thrown again: the generator returns.
TtsRaiseSwallowed(c) ==
  /\ calls[c].pc = "awaitChunk"
  /\ calls[c].fault
  /\ calls' = [calls EXCEPT ![c].pc = "done"]
  /\ UNCHANGED <<socks, closeResult, probe>>

\* tts: reading the destroyed stream raises its error; the catch block logs
\* it and throws it again, as it is.
TtsRaise(c) ==
  /\ calls[c].pc = "awaitChunk"
  /\ calls[c].fault
  /\ calls' = [calls EXCEPT ![c].pc = "rejected",
                            ![c].err = ResponseInterceptor(AxiosNetworkError(StreamError))]
  /\ UNCHANGED <<socks, closeResult, probe>>

\* What the 'close' event of socket id does to a call: nothing to a call on
\* another socket or one whose body is complete; a call awaiting its
\* response rejects with the transport error, which the interceptor throws
\* again as it is (there is no response); a stream still open is destroyed
\* with an error, its unread chunks dropped.
AfterSocketClose(cl, id) ==
  IF cl.sock # id \/ cl.pc \notin Blocked \cup Streaming THEN cl
  ELSE IF cl.pc = "awaitResponse"
  THEN [cl EXCEPT !.pc = "rejected", !.sock = NoSocket,
                  !.err = ResponseInterceptor(AxiosNetworkError(TransportError))]
  ELSE IF cl.peerEnded THEN [cl EXCEPT !.sock = NoSocket]
  ELSE [cl EXCEPT !.fault = TRUE, !.sock = NoSocket, !.buf = <<>>]

\* The event loop delivers the 'close' event of a destroyed socket: the
\* socket leaves its agent and the call on it, if any, learns of it.
SocketClosed(id) ==
  /\ InPool(socks[id])
  /\ socks[id].destroyed
  /\ socks' = [socks EXCEPT ![id].st = "gone"]
  /\ calls' = [c \in CallIds |-> AfterSocketClose(calls[c], id)]
  /\ UNCHANGED <<closeResult, probe>>

\* Close with a teardown that is repeated on a socket already destroyed.
closeRepeated(s) ==
  /\ socks' = [id \in SocketIds |->
                 IF socks[id].agent[1] = s /\ InPool(socks[id])
                 THEN [socks[id] EXCEPT !.destroyed = TRUE, !.destroys = @ + 1]
                 ELSE socks[id]]
  /\ closeResult' = [closeResult EXCEPT ![s] = "ok"]
  /\ calls' = [c \in CallIds |->
                 IF calls[c].sess = s /\ calls[c].pc \in Blocked
                 THEN [calls[c] EXCEPT !.closedDuring = TRUE] ELSE calls[c]]
  /\ UNCHANGED probe

\* Close that destroys only the idle sockets and leaves those in use.
closeIdleOnly(s) ==
  /\ socks' = [id \in SocketIds |->
                 IF socks[id].agent[1] = s /\ socks[id].st = "free"
                 THEN SocketDestroy(socks[id]) ELSE socks[id]]
  /\ closeResult' = [closeResult EXCEPT ![s] = "ok"]
  /\ calls' = [c \in CallIds |->
                 IF calls[c].sess = s /\ calls[c].pc \in Blocked
                 THEN [calls[c] EXCEPT !.closedDuring = TRUE] ELSE calls[c]]
  /\ UNCHANGED probe

\* Close on agents that every Session shares.
closeShared(s) ==
  /\ socks' = [id \in SocketIds |->
                 IF InPool(socks[id]) THEN SocketDestroy(socks[id]) ELSE socks[id]]
  /\ closeResult' = [closeResult EXCEPT ![s] = "ok"]
  /\ calls' = [c \in CallIds |->
                 IF calls[c].sess = s /\ calls[c].pc \in Blocked
                 THEN [calls[c] EXCEPT !.closedDuring = TRUE] ELSE calls[c]]
  /\ UNCHANGED probe

\* Session.close(): this.httpAgent.destroy(); this.httpsAgent.destroy().
\* Neither call throws, and nothing records that the session was closed.
close(s) ==
  /\ socks' = AgentDestroy(AgentDestroy(socks, <<s, "http">>), <<s, "https">>)
  /\ closeResult' = [closeResult EXCEPT ![s] = "ok"]
  /\ calls' = [c \in CallIds |->
                 IF calls[c].sess = s /\ calls[c].pc \in Blocked
                 THEN [calls[c] EXCEPT !.closedDuring = TRUE] ELSE calls[c]]
  /\ UNCHANGED probe

Next ==
  \/ \E c \in CallIds, s \in Sessions, op \in Ops : Start(c, s, op)
  \/ \E c \in CallIds, resp \in LifecycleResponses : PeerRespond(c, resp)
  \/ \E c \in CallIds, n \in 1..MaxBody : PeerWrite(c, n)
  \/ \E c \in CallIds : PeerEnd(c)
  \/ \E c \in CallIds : PeerReset(c)
  \/ \E c \in CallIds : TtsYield(c)
  \/ \E c \in CallIds : TtsPull(c)
  \/ \E c \in CallIds : TtsEnd(c)
  \/ \E c \in CallIds : TtsRaise(c)
  \/ \E id \in SocketIds : SocketClosed(id)
  \/ \E s \in Sessions : close(s)

Spec == Init /\ [][Next]_vars

\* The event loop runs what is ready: a destroyed socket's 'close' event is
\* delivered, and a generator whose next chunk, end or error is at hand goes
\* on. Nothing makes the peer answer, the consumer pull or the caller call.
FairSpec ==
  /\ Spec
  /\ \A id \in SocketIds : WF_vars(SocketClosed(id))
  /\ \A c \in CallIds : WF_vars(TtsYield(c)) /\ WF_vars(TtsEnd(c)) /\ WF_vars(TtsRaise(c))

\* ----------------------------------------------------- lifecycle claims
IsPrefix(p, q) == Len(p) <= Len(q) /\ SubSeq(q, 1, Len(p)) = p
Closed(s) == closeResult[s] # "none"
OwnedBy(s) == {id \in SocketIds : socks[id].agent[1] = s}

\* C1: once close() was called on a Session, every operation called on it
\* afterwards fails at once with a 'client closed' error and opens no
\* connection.
C1_ClosedSessionRefuses ==
  [][\A c \in CallIds, s \in Sessions, op \in Ops :
       (Closed(s) /\ Start(c, s, op)) =>
         /\ calls'[c].pc = "rejected"
         /\ calls'[c].err.class = "ClientClosedError"
         /\ socks' = socks]_vars

\* No connection is released more than once, and no close() has raised.
C6_EachSocketReleasedOnce ==
  /\ \A id \in SocketIds : socks[id].destroys <= 1
  /\ \A s \in Sessions : closeResult[s] # "raised"
\* A close() on a Session whose connections are all released changes nothing.
C6_RepeatedCloseReleasesNothing ==
  \A s \in Sessions :
    (close(s) /\ \A id \in OwnedBy(s) : socks[id].destroyed) => socks' = socks
C7_StreamReassembles ==
  \A c \in CallIds :
    /\ IsPrefix(Flatten(calls[c].yielded), calls[c].body)
    /\ ~calls[c].fault =>
         Flatten(calls[c].yielded) \o Flatten(calls[c].buf) = calls[c].body
    /\ calls[c].pc = "done" =>
         calls[c].peerEnded /\ Flatten(calls[c].yielded) = calls[c].body
\* tts returned after it yielded two chunks, the first before the peer
\* closed the response.
C7_Witness ==
  \E c \in CallIds :
    /\ calls[c].pc = "done"
    /\ Len(calls[c].yielded) = 2
    /\ Flatten(calls[c].yielded) = <<1, 2>>
\* A chunk was yielded while the peer had not closed the response.
C7_YieldedBeforeEnd ==
  \E c \in CallIds :
    calls[c].pc = "yielded" /\ calls[c].yielded # <<>> /\ ~calls[c].peerEnded

\* The classified errors.
TypedErrorClasses ==
  {"AuthenticationError", "PaymentRequiredError", "NotFoundError", "HttpCodeError",
   "WebSocketError", "ConnectionLostError"}
C9_CloseUnblocks ==
  \A c \in CallIds :
    (calls[c].pc \in Blocked /\ calls[c].closedDuring) ~> (calls[c].pc \notin Blocked)
\* A call that close() found waiting for its response has raised.
C9_Witness ==
  \E c \in CallIds :
    /\ calls[c].closedDuring /\ calls[c].pc = "rejected"
    /\ calls[c].err \in {TransportError, StreamError}

\* A call's connection belongs to an agent of the call's own Session.
C10_OwnPool ==
  \A c \in CallIds :
    calls[c].sock # NoSocket => socks[calls[c].sock].agent = AgentOf(calls[c].sess)
\* close() on one Session changes nothing of any other Session.
C10_CloseFrame ==
  \A s \in Sessions :
    close(s) =>
      /\ \A id \in SocketIds : socks[id].agent[1] # s => socks'[id] = socks[id]
      /\ \A c \in CallIds : calls[c].sess # s => calls'[c] = calls[c]
      /\ \A t \in Sessions \ {s} :
           /\ closeResult'[t] = closeResult[t]
           /\ CanAcquire(t) => CanAcquire(t)'
ApiKeys == {"key-1", "key-2"}
DefaultDeveloperId == "6322d9df15d044e7b928de27c863480f"
DeveloperIds == {DefaultDeveloperId, "dev-2"}

\* axios compares header names without case.
Lower(name) ==
  CASE name = "Authorization" -> "authorization"
    [] name = "Content-Type" -> "content-type"
    [] OTHER -> name

\* The headers of the client axios.create() builds in the constructor.
DefaultHeaders(apiKey, developerId) ==
  [n \in {"authorization", "developer-id"} |->
     IF n = "authorization" THEN <<"Bearer", apiKey>> ELSE <<developerId>>]

\* { ...a, ...b } of two JavaScript objects: b's properties over a's.
Spread(a, b) ==
  [k \in DOMAIN a \cup DOMAIN b |-> IF k \in DOMAIN b THEN b[k] ELSE a[k]]

\* axios's merge of a request's headers over the client's: a header of the
\* request replaces the client's header of the same name, whatever its case.
MergeHeaders(defaults, perCall) ==
  [n \in DOMAIN defaults \cup {Lower(k) : k \in DOMAIN perCall} |->
     IF \E k \in DOMAIN perCall : Lower(k) = n
     THEN perCall[CHOOSE k \in DOMAIN perCall : Lower(k) = n]
     ELSE defaults[n]]

NoHeaders == [k \in {} |-> <<>>]
NoQuery == [k \in {} |-> ""]
NoParams == [k \in {} |-> ""]

\* A request as the client sends it.
Request(id, method, url, perCall, query) ==
  [method |-> method, url |-> url, query |-> query,
   headers |-> MergeHeaders(DefaultHeaders(id.apiKey, id.developerId), perCall)]

\* The additionalHeaders a caller may pass to tts: any of a model header, an
\* Authorization header in either spelling, a developer-id header.
AdditionalHeaderNames == {"model", "Authorization", "authorization", "developer-id"}
AdditionalHeaderValue(k) ==
  CASE k = "model" -> <<"speech-1.5">>
    [] k = "developer-id" -> <<"other-dev">>
    [] OTHER -> <<"Bearer", "other-key">>
AdditionalHeaders ==
  {[k \in D |-> AdditionalHeaderValue(k)] :
     D \in {E \in SUBSET AdditionalHeaderNames :
              ~({"Authorization", "authorization"} \subseteq E)}}

\* The filters listModels is documented to take, and their values.
ListParamNames ==
  {"pageSize", "pageNumber", "title", "tag", "self", "authorId", "language",
   "titleLanguage", "type", "sortBy"}
PageSizes == {"10", "20"}
ListParamValue(f, pageSize) ==
  CASE f = "pageSize" -> pageSize
    [] f = "pageNumber" -> "1"
    [] f = "title" -> "search term"
    [] f = "tag" -> "[tag1,tag2]"
    [] f = "self" -> "true"
    [] f = "authorId" -> "user_id"
    [] f = "language" -> "[en,zh]"
    [] f = "titleLanguage" -> "en"
    [] f = "type" -> "tts"
    [] OTHER -> "created_at"
ListParams ==
  {[f \in D |-> ListParamValue(f, ps)] : D \in SUBSET ListParamNames, ps \in PageSizes}

\* listModels: the parameters it copies into apiParams, each under its wire
\* name (one if statement each).
ListModelsWireNames ==
  [f \in {"pageSize", "pageNumber", "title", "tag", "self", "authorId", "language",
          "titleLanguage", "sortBy"} |->
     CASE f = "pageSize" -> "page_size"
       [] f = "pageNumber" -> "page_number"
       [] f = "authorId" -> "author_id"
       [] f = "titleLanguage" -> "title_language"
       [] f = "sortBy" -> "sort_by"
       [] OTHER -> f]
\* apiParams for params: a parameter that is undefined is one params lacks.
apiParams(wireNames, params) ==
  LET copied == DOMAIN params \cap DOMAIN wireNames IN
    [w \in {wireNames[f] : f \in copied} |->
       params[CHOOSE f \in copied : wireNames[f] = w]]

CreditParams == {NoParams} \cup {[k \in {"checkFreeCredit"} |-> v] : v \in {"true", "false"}}
CreditWireNames == [f \in {"checkFreeCredit"} |-> "check_free_credit"]

ModelIds == {"model_id", "invalid_id"}
Identities == [apiKey : ApiKeys, developerId : DeveloperIds]

\* A Session is constructed with an identity; nothing is sent yet.
ReqInit ==
  /\ socks = [id \in SocketIds |-> UnusedSocket]
  /\ calls = [c \in CallIds |-> IdleCall]
  /\ closeResult = [s \in Sessions |-> "none"]
  /\ probe \in {[stage |-> "constructed", id |-> i, op |-> None, params |-> NoParams,
                 additionalHeaders |-> NoHeaders, request |-> None] : i \in Identities}

Sent(op, params, additionalHeaders, request) ==
  /\ probe.stage = "constructed"
  /\ probe' = [probe EXCEPT !.stage = "sent", !.op = op, !.params = params,
                            !.additionalHeaders = additionalHeaders,
                            !.request = request]
  /\ UNCHANGED <<socks, calls, closeResult>>

tts(additionalHeaders) ==
  Sent("tts", NoParams, additionalHeaders,
       Request(probe.id, "POST", <<"/v1/tts">>,
               Spread([k \in {"Content-Type"} |-> <<"application/json">>],
                      additionalHeaders),
               NoQuery))

asr ==
  Sent("asr", NoParams, NoHeaders,
       Request(probe.id, "POST", <<"/v1/asr">>,
               [k \in {"Content-Type"} |-> <<"application/msgpack">>], NoQuery))

listModels(params) ==
  Sent("listModels", params, NoHeaders,
       Request(probe.id, "GET", <<"/model">>, NoHeaders,
               apiParams(ListModelsWireNames, params)))

getModel(modelId) ==
  Sent("getModel", NoParams, NoHeaders,
       Request(probe.id, "GET", <<"/model", modelId>>, NoHeaders, NoQuery))

\* formData.getHeaders(): the multipart content type.
FormHeaders == [k \in {"content-type"} |-> <<"multipart/form-data">>]

createModel ==
  Sent("createModel", NoParams, NoHeaders,
       Request(probe.id, "POST", <<"/model">>, Spread(NoHeaders, FormHeaders), NoQuery))

deleteModel(modelId) ==
  Sent("deleteModel", NoParams, NoHeaders,
       Request(probe.id, "DELETE", <<"/model", modelId>>, NoHeaders, NoQuery))

updateModel(modelId) ==
  Sent("updateModel", NoParams, NoHeaders,
       Request(probe.id, "PATCH", <<"/model", modelId>>, Spread(NoHeaders, FormHeaders),
               NoQuery))

getApiCredit(params) ==
  Sent("getApiCredit", params, NoHeaders,
       Request(probe.id, "GET", <<"/wallet/self/api-credit">>, NoHeaders,
               apiParams(CreditWireNames, params)))

getPackage ==
  Sent("getPackage", NoParams, NoHeaders,
       Request(probe.id, "GET", <<"/wallet/self/package">>, NoHeaders, NoQuery))

ReqNext ==
  \/ \E h \in AdditionalHeaders : tts(h)
  \/ asr
  \/ \E p \in ListParams : listModels(p)
  \/ \E m \in ModelIds : getModel(m)
  \/ createModel
  \/ \E m \in ModelIds : deleteModel(m)
  \/ \E m \in ModelIds : updateModel(m)
  \/ \E p \in CreditParams : getApiCredit(p)
  \/ getPackage

ReqSpec == ReqInit /\ [][ReqNext]_vars

\* C4: every request carries Authorization: Bearer <apiKey> and
\* developer-id: <developerId> with the values the Session was constructed
\* with, whatever the caller passed to the operation.
C4_IdentityHeadersAlwaysSent ==
  probe.stage = "sent" =>
    /\ {"authorization", "developer-id"} \subseteq DOMAIN probe.request.headers
    /\ probe.request.headers["authorization"] = <<"Bearer", probe.id.apiKey>>
    /\ probe.request.headers["developer-id"] = <<probe.id.developerId>>

\* The wire name of each documented filter: snake case.
DocumentedWireNames ==
  [f \in ListParamNames |->
     IF f \in DOMAIN ListModelsWireNames THEN ListModelsWireNames[f] ELSE f]
\* C5: the query listModels sends holds each documented filter that is set,
\* under its wire name and with its value, and nothing else.
C5_ListQueryTotal ==
  (probe.stage = "sent" /\ probe.op = "listModels") =>
    /\ DOMAIN probe.request.query = {DocumentedWireNames[f] : f \in DOMAIN probe.params}
    /\ \A f \in DOMAIN probe.params :
         probe.request.query[DocumentedWireNames[f]] = probe.params[f]

\* ============================================================ responses
\* One call of each operation, answered by the peer with each response.
ErrInit ==
  /\ socks = [id \in SocketIds |-> UnusedSocket]
  /\ calls = [c \in CallIds |-> IdleCall]
  /\ closeResult = [s \in Sessions |-> "none"]
  /\ probe \in {[stage |-> "awaiting", op |-> op, resp |-> r, err |-> NoError] :
                  op \in Ops, r \in PeerResponses}

\* The response arrives: the call resolves, or rejects with what the
\* interceptor throws.
Respond ==
  /\ probe.stage = "awaiting"
  /\ probe' = [probe EXCEPT !.stage = IF Is2xx(probe.resp.status) THEN "resolved"
                                       ELSE "rejected",
                            !.err = CallOutcome(ResponseTypeOf(probe.op), probe.resp)]
  /\ UNCHANGED <<socks, calls, closeResult>>

ErrNext == Respond

ErrSpec == ErrInit /\ [][ErrNext]_vars

\* The classification a status is documented to raise.
ClassOf(status) ==
  CASE status = 401 -> "AuthenticationError"
    [] status = 402 -> "PaymentRequiredError"
    [] status = 404 -> "NotFoundError"
    [] OTHER -> "HttpCodeError"
\* C2: a response with status 401, 402 or 404 raises the authentication,
\* payment or not-found error, with that status.
C2_StatusClassified ==
  (probe.stage = "rejected" /\ probe.resp.status \in {401, 402, 404}) =>
    /\ probe.err.class = ClassOf(probe.resp.status)
    /\ probe.err.status = probe.resp.status

\* The detail the body of a response gives: its text, or of a JSON body the
\* detail field, else the message field; the status line when it gives none.
BodyDetail(resp) ==
  CASE resp.body.kind = "text" -> resp.body.text
    [] resp.body.kind = "json" -> Or3(resp.body.detail, resp.body.message, resp.statusText)
    [] OTHER -> resp.statusText
\* C3: for any other failing status the error carries the status, and its
\* detail is not empty and comes from the body when there is one (the text
\* of a text body; of a JSON body the detail field, else the message field),
\* from the status line only otherwise; for tts as for the rest.
C3_DetailFromBody ==
  (probe.stage = "rejected" /\ probe.resp.status \notin {401, 402, 404}) =>
    /\ probe.err.status = probe.resp.status
    /\ probe.err.detail # ""
    /\ probe.err.detail = BodyDetail(probe.resp)

====
